---- MODULE Spec2Model ----
(***************************************************************************)
(* Model of src/js/words/domains/grab_wikt_pages.py: the category page     *)
(* enumerator.  The script fetches the members of a wiki category page by  *)
(* page, accumulates the records and writes their titles to a file.        *)
(*                                                                         *)
(* Program state: keep_going, args, all_categories, r (the last response), *)
(* the output file, standard output, the number of sleeps and the control  *)
(* position pc.  The environment is the wiki API: either a paging API over *)
(* a category of `members` records ("paged") or an API that may answer     *)
(* anything ("any").  requests, statuses and fetched are history           *)
(* variables: the requests issued, the status codes received and the       *)
(* titles of the records the 200 responses carried, in order of arrival.   *)
(***************************************************************************)
EXTENDS Integers, Sequences, FiniteSets, TLC

VARIABLES pc, keep_going, args, all_categories, r, file, stdout, sleeps,
          requests, statuses, fetched, apiKind, members, apiDown

vars == <<pc, keep_going, args, all_categories, r, file, stdout, sleeps,
          requests, statuses, fetched, apiKind, members, apiDown>>

(***************************************************************************)
(* Bounds of the model.                                                    *)
(***************************************************************************)
\* Fetches (successful or failed) one run may issue.
MaxFetches == 3

(***************************************************************************)
(* Constants of the script (lines 8-21).                                   *)
(***************************************************************************)
default_category == "Category:Mandarin_idioms"

batch_size == 500

url == [base |-> "https://en.wiktionary.org/w/api.php",
        action |-> "query", list |-> "categorymembers",
        cmtitle |-> default_category, cmprop |-> "title", cmtype |-> "page",
        format |-> "json", cmlimit |-> batch_size]

base_args == [action |-> "query", list |-> "categorymembers",
              cmprop |-> "title", cmtype |-> "page", format |-> "json",
              cmlimit |-> batch_size]

\* The sentinel the continuation block's `continue` value is compared with.
Sentinel == "-||"

\* Python's None: what dict.get returns for a missing key.
None == "None"

\* The newline character written after each title; titles are positive
\* numbers, each naming one title string (a wiki title holds no newline).
NL == 0

(***************************************************************************)
(* Data: page records, pages, responses.                                   *)
(***************************************************************************)
\* The API's record of member i: its namespace and its title.
PageRecord(i) == [ns |-> 0, title |-> i]

\* len consecutive records, starting with member start.
Page(start, len) == [i \in 1..len |-> PageRecord(start + i - 1)]

\* No continuation block in the response.
NoContinue == [present |-> FALSE, continue |-> None, cmcontinue |-> None]

ContinueBlock(cval, ctoken) ==
    [present |-> TRUE, continue |-> cval, cmcontinue |-> ctoken]

\* A 200 response whose body parses and holds query.categorymembers.
OKResponse(cms, cont) ==
    [status_code |-> 200, body |-> "json", categorymembers |-> cms,
     continue |-> cont]

\* A 200 response whose body does not parse ("notjson") or lacks the
\* "query" key ("noquery") or the "categorymembers" key ("nocms").
MalformedResponse(kind, cont) ==
    [status_code |-> 200, body |-> kind, categorymembers |-> <<>>,
     continue |-> cont]

ErrorResponse(status) ==
    [status_code |-> status, body |-> "error", categorymembers |-> <<>>,
     continue |-> NoContinue]

\* Before the first fetch r is unbound.
NoResponse == ErrorResponse(0)

(***************************************************************************)
(* The environment: what the API may answer.                               *)
(***************************************************************************)
\* Non-success status codes the API may answer with.
ErrorStatuses == {503}

\* The opaque continuation tokens of the paging API: Tokens[k] continues
\* after k full pages.
Tokens == <<"page|2", "page|3", "page|4", "page|5", "page|6">>

TokenOffset(tok) ==
    batch_size * (CHOOSE k \in 1..Len(Tokens) : Tokens[k] = tok)

\* Category sizes of the paging API.
CategorySizes == {0, 1, 150, 499, 500, 501, 650, 1000, 1001}

\* The paging API's answer to a request: the next at most cmlimit members
\* after the offset the request's cmcontinue names, and a continuation
\* block exactly when more members remain.
PagedResponse(params) ==
    LET offset == IF "cmcontinue" \in DOMAIN params
                  THEN TokenOffset(params["cmcontinue"]) ELSE 0
        limit == params["cmlimit"]
        rest == IF members > offset THEN members - offset ELSE 0
        len == IF rest < limit THEN rest ELSE limit
    IN  OKResponse(Page(offset + 1, len),
                   IF rest > limit
                   THEN ContinueBlock(Sentinel, Tokens[(offset + limit) \div batch_size])
                   ELSE NoContinue)

\* What an arbitrary API may put in a 200 response.
AnyLens == {0, 499, batch_size}

AnyStarts == {1, 501}

AnyContinues == {None, Sentinel, "||"}

AnyTokens == {None, "", Tokens[1]}

AnyContinueBlocks ==
    {NoContinue} \cup
    {ContinueBlock(c, t) : c \in AnyContinues, t \in AnyTokens}

AnyResponses ==
    {OKResponse(Page(s, n), c) :
        s \in AnyStarts, n \in AnyLens, c \in AnyContinueBlocks}

\* The 200 responses the API may give to a request.
Responses(params) ==
    IF apiKind = "paged" THEN {PagedResponse(params)} ELSE AnyResponses

(***************************************************************************)
(* Output.                                                                 *)
(***************************************************************************)
\* One print call: the format string and its argument.
Out(fmt, n) == [fmt |-> fmt, n |-> n]

\* What the output file holds before the run.
PriorContent == <<7, NL, 8, NL>>

\* The same with the file opened for appending.
WriteLines_Append(cs) ==
    PriorContent \o
    [j \in 1..(2 * Len(cs)) |->
        IF j % 2 = 1 THEN cs[(j + 1) \div 2]["title"] ELSE NL]

\* fout.write(c["title"] + '\n') for every c of cs, in order (lines 60-61).
WriteLines(cs) ==
    [j \in 1..(2 * Len(cs)) |->
        IF j % 2 = 1 THEN cs[(j + 1) \div 2]["title"] ELSE NL]

\* The titles of a sequence of records.
Titles(cs) == [i \in 1..Len(cs) |-> cs[i]["title"]]

\* The lines of a file's content: the symbols before each newline.
NewlinePositions(f) == {j \in 1..Len(f) : f[j] = NL}

LineCount(f) == Cardinality(NewlinePositions(f))

(***************************************************************************)
(* The script (lines 23-61).                                               *)
(***************************************************************************)
\* u = url.format(title=category, batch_size=batch_size) (line 28).
u == url

\* requests.get(u, params=args) (line 33): the request that goes out.
Request(params) == [u |-> u, params |-> params]

\* The token only compared with None.
Truthy_NotNone(ctoken) == ctoken # None

\* Truth value of a continuation token: None and "" are false.
Truthy(ctoken) == ctoken # None /\ ctoken # ""

\* len(cms) < batch_size (line 38).
ShortPage(cms) == Len(cms) < batch_size

\* The same without the comparison with the sentinel.
Continues_TokenOnly(cval, ctoken) == Truthy(ctoken)

\* cval == "-||" and ctoken (line 44).
Continues(cval, ctoken) == cval = Sentinel /\ Truthy(ctoken)

\* The page put in place of the accumulated records.
Extend_Replace(all, cms) == cms

\* The page put in front of the accumulated records.
Extend_Prepend(all, cms) == cms \o all

\* all_categories.extend(cms) (line 40).
Extend(all, cms) == all \o cms

\* The same with keep_going set again where line 47 says "keep looping".
KeepGoingAfterOK_ContinueWins(resp) ==
    IF resp.continue.present
    THEN Continues(resp.continue.continue, resp.continue.cmcontinue)
    ELSE ~ShortPage(resp.categorymembers)

\* The same without the test of lines 38-39.
KeepGoingAfterOK_NoShortTest(resp) ==
    IF resp.continue.present
    THEN Continues(resp.continue.continue, resp.continue.cmcontinue)
    ELSE TRUE

\* keep_going after a well-formed 200 response (lines 35-49).
KeepGoingAfterOK(resp) ==
    LET k35 == TRUE
        k39 == IF ShortPage(resp.categorymembers) THEN FALSE ELSE k35
    IN  IF resp.continue.present
        THEN IF Continues(resp.continue.continue, resp.continue.cmcontinue)
             THEN k39
             ELSE FALSE
        ELSE k39

\* The continuation only stored when args holds none yet.
ArgsAfterOK_KeepFirst(params, resp) ==
    IF /\ resp.continue.present
       /\ Continues(resp.continue.continue, resp.continue.cmcontinue)
       /\ "cmcontinue" \notin DOMAIN params
    THEN [k \in DOMAIN params \cup {"continue", "cmcontinue"} |->
            IF k = "continue" THEN resp.continue.continue
            ELSE IF k = "cmcontinue" THEN resp.continue.cmcontinue
            ELSE params[k]]
    ELSE params

\* args built again from base_args when a continuation is stored.
ArgsAfterOK_FromBase(params, resp) ==
    IF /\ resp.continue.present
       /\ Continues(resp.continue.continue, resp.continue.cmcontinue)
    THEN [k \in DOMAIN base_args \cup {"continue", "cmcontinue"} |->
            IF k = "continue" THEN resp.continue.continue
            ELSE IF k = "cmcontinue" THEN resp.continue.cmcontinue
            ELSE base_args[k]]
    ELSE params

\* args after a well-formed 200 response (lines 41-46).
ArgsAfterOK(params, resp) ==
    IF /\ resp.continue.present
       /\ Continues(resp.continue.continue, resp.continue.cmcontinue)
    THEN [k \in DOMAIN params \cup {"continue", "cmcontinue"} |->
            IF k = "continue" THEN resp.continue.continue
            ELSE IF k = "cmcontinue" THEN resp.continue.cmcontinue
            ELSE params[k]]
    ELSE params

\* The loop given up after a failed fetch.
KeepGoingAfterError_Stop(kg) == FALSE

\* keep_going after a non-200 response (lines 50-52): not assigned.
KeepGoingAfterError(kg) == kg

\* The continuation dropped after a failed fetch.
ArgsAfterError_Reset(params) ==
    [k \in DOMAIN params \ {"continue", "cmcontinue"} |-> params[k]]

\* args after a non-200 response (lines 50-52): not assigned.
ArgsAfterError(params) == params

\* The records so far written out after every page.
FileAfterFetch_Checkpoint(f, all) ==
    [j \in 1..(2 * Len(all)) |->
        IF j % 2 = 1 THEN all[(j + 1) \div 2]["title"] ELSE NL]

\* The output file after an iteration (lines 32-55): the loop does not
\* touch it.
FileAfterFetch(f, all) == f

\* print('.', end='') at the end of an iteration (lines 53-54), whatever
\* the status was.
ProgressAfter(out, status) == Append(out, Out(".", 0))

\* The sleep only taken after a successful fetch.
SleepsAfter_OnlyOK(n, status) == IF status = 200 THEN n + 1 ELSE n

\* time.sleep(0.25) at the end of an iteration (line 55), whatever the
\* status was.
SleepsAfter(n, status) == n + 1

\* The exception swallowed: the loop goes on.
AfterUncaught_Swallow(at) == at

\* Where control goes when r.json() or a subscript of line 37 raises:
\* no handler, the process ends.
AfterUncaught(at) == "crashed"

Init ==
    /\ pc = "loop"
    /\ keep_going = TRUE
    /\ args = [k \in DOMAIN base_args \cup {"cmtitle"} |->
                 IF k = "cmtitle" THEN default_category ELSE base_args[k]]
    /\ all_categories = <<>>
    /\ r = NoResponse
    /\ file = PriorContent
    /\ stdout = <<>>
    /\ sleeps = 0
    /\ requests = <<>>
    /\ statuses = <<>>
    /\ fetched = <<>>
    /\ apiKind \in {"paged", "any"}
    /\ members \in CategorySizes
    /\ apiKind = "any" => members = 0
    /\ apiDown = FALSE

\* while keep_going (line 32), within the model's bound on fetches.
AtLoop == pc = "loop" /\ keep_going /\ Len(requests) < MaxFetches

\* One iteration with a well-formed 200 response (lines 33-49, 53-55).
FetchOK ==
    /\ AtLoop
    /\ ~apiDown
    /\ \E resp \in Responses(args) :
        /\ r' = resp
        /\ keep_going' = KeepGoingAfterOK(resp)
        /\ all_categories' = Extend(all_categories, resp.categorymembers)
        /\ args' = ArgsAfterOK(args, resp)
        /\ fetched' = fetched \o Titles(resp.categorymembers)
        /\ file' = FileAfterFetch(file, all_categories')
    /\ requests' = Append(requests, Request(args))
    /\ statuses' = Append(statuses, 200)
    /\ stdout' = ProgressAfter(stdout, 200)
    /\ sleeps' = SleepsAfter(sleeps, 200)
    /\ UNCHANGED <<pc, apiKind, members, apiDown>>

\* One iteration with a non-200 response (lines 33-34, 50-55).
FetchError ==
    /\ AtLoop
    /\ \E status \in ErrorStatuses :
        /\ r' = ErrorResponse(status)
        /\ statuses' = Append(statuses, status)
        /\ stdout' = ProgressAfter(stdout \o <<Out("Error: {}", status),
                                               Out("<Response [{}]>", status)>>,
                                   status)
        /\ sleeps' = SleepsAfter(sleeps, status)
    /\ keep_going' = KeepGoingAfterError(keep_going)
    /\ args' = ArgsAfterError(args)
    /\ requests' = Append(requests, Request(args))
    /\ UNCHANGED <<pc, all_categories, file, fetched, apiKind,
                   members, apiDown>>

\* A 200 response whose body does not parse or lacks query.categorymembers:
\* r.json() or the subscripts of line 37 raise, and nothing catches it.
FetchMalformed ==
    /\ AtLoop
    /\ ~apiDown
    /\ apiKind = "any"
    /\ \E kind \in {"notjson", "noquery", "nocms"},
          c \in {NoContinue, ContinueBlock(Sentinel, Tokens[1])} :
        r' = MalformedResponse(kind, c)
    /\ keep_going' = TRUE
    /\ pc' = AfterUncaught(pc)
    /\ requests' = Append(requests, Request(args))
    /\ statuses' = Append(statuses, 200)
    /\ UNCHANGED <<args, all_categories, file, stdout, sleeps, fetched,
                   apiKind, members, apiDown>>

\* requests.get raises (no connection, line 33): nothing catches it.
FetchRaises ==
    /\ AtLoop
    /\ ~apiDown
    /\ apiKind = "any"
    /\ pc' = "crashed"
    /\ requests' = Append(requests, Request(args))
    /\ UNCHANGED <<keep_going, args, all_categories, r, file, stdout, sleeps,
                   statuses, fetched, apiKind, members, apiDown>>

\* After the loop (lines 56-61): the count is printed, the file is opened
\* for writing, which empties it, and every title is written.
Finalize ==
    /\ pc = "loop"
    /\ ~keep_going
    /\ stdout' = stdout \o <<Out("", 0),
                             Out("Found {} categories.", Len(all_categories))>>
    /\ file' = WriteLines(all_categories)
    /\ pc' = "done"
    /\ UNCHANGED <<keep_going, args, all_categories, r, sleeps, requests,
                   statuses, fetched, apiKind, members, apiDown>>

\* After the loop, open() raises (line 59): the count was printed, the file
\* is as it was.
FinalizeIOError ==
    /\ pc = "loop"
    /\ ~keep_going
    /\ stdout' = stdout \o <<Out("", 0),
                             Out("Found {} categories.", Len(all_categories))>>
    /\ pc' = "crashed"
    /\ UNCHANGED <<keep_going, args, all_categories, r, file, sleeps,
                   requests, statuses, fetched, apiKind, members, apiDown>>

\* The environment: from now on the API answers every request with a
\* non-200 status.
ApiGoesDown ==
    /\ pc = "loop"
    /\ keep_going
    /\ ~apiDown
    /\ apiDown' = TRUE
    /\ UNCHANGED <<pc, keep_going, args, all_categories, r, file, stdout,
                   sleeps, requests, statuses, fetched, apiKind, members>>

Next ==
    \/ FetchOK
    \/ FetchError
    \/ FetchMalformed
    \/ FetchRaises
    \/ Finalize
    \/ FinalizeIOError
    \/ ApiGoesDown

Spec == Init /\ [][Next]_vars

\* The loop body always completes and the script runs on: the iteration and
\* the finalization are taken when they can be.
FairSpec ==
    Spec /\ WF_vars(FetchOK \/ FetchError) /\ WF_vars(Finalize)

TypeOK ==
    /\ pc \in {"loop", "done", "crashed"}
    /\ keep_going \in BOOLEAN
    /\ Len(requests) <= MaxFetches
    /\ Len(statuses) <= Len(requests)
    /\ sleeps \in Nat

(***************************************************************************)
(* Vocabulary of the properties.                                           *)
(***************************************************************************)
\* Any fetch: one more request goes out.
Fetch == FetchOK \/ FetchError \/ FetchMalformed \/ FetchRaises

\* The file content that holds the given titles, one per line, in order.
LinesOf(titles) ==
    [j \in 1..(2 * Len(titles)) |->
        IF j % 2 = 1 THEN titles[(j + 1) \div 2] ELSE NL]

\* The titles of the category's members, in the API's order.
MemberTitles == [i \in 1..members |-> i]

\* Every response so far had status 200.
AllOK == \A i \in 1..Len(statuses) : statuses[i] = 200

\* The paging API has answered 200 to every request so far.
PagedAllOK == apiKind = "paged" /\ ~apiDown /\ AllOK

\* The last response is a well-formed 200 response.
LastOK == r.status_code = 200 /\ r.body = "json"

\* The last response carries a continuation block that asks to go on.
LastContinues ==
    /\ r.continue.present
    /\ r.continue.continue = "-||"
    /\ r.continue.cmcontinue \notin {None, ""}

\* s is the tail of t.
IsSuffix(s, t) ==
    /\ Len(s) <= Len(t)
    /\ SubSeq(t, Len(t) - Len(s) + 1, Len(t)) = s

(***************************************************************************)
(* C1.  Completeness of enumeration: against the paging API answering 200  *)
(* to every request, the enumerator terminates and the output is exactly   *)
(* the N member titles in API order, each once, also when N is a positive  *)
(* multiple of the batch size.  Stated so that a finite run refutes it:    *)
(* the accumulated records never exceed the members, the loop has exited   *)
(* once a response has delivered the last member, and the file written     *)
(* holds exactly the member titles.                                        *)
(***************************************************************************)
C1_Complete ==
    PagedAllOK =>
        /\ Len(all_categories) <= members
        /\ (statuses # <<>> /\ Len(all_categories) >= members) => ~keep_going
        /\ pc = "done" => file = LinesOf(MemberTitles)

(***************************************************************************)
(* C2.  After a 200 response with a full page (as many records as the      *)
(* batch size) and no continuation block the loop terminates with no       *)
(* further fetch; a category of exactly 500 members with batch size 500    *)
(* is enumerated with exactly one fetch and 500 lines written.             *)
(***************************************************************************)
C2_FullPageWithoutContinueStops ==
    /\ (pc = "loop" /\ LastOK /\ Len(r.categorymembers) = batch_size
            /\ ~r.continue.present)
        => (~keep_going /\ ~ENABLED Fetch)
    /\ (PagedAllOK /\ members = 500 /\ batch_size = 500)
        => /\ Len(requests) <= 1
           /\ pc = "done" => (Len(requests) = 1 /\ LineCount(file) = 500)

(***************************************************************************)
(* C3.  When the first response has status 200 and fewer records than the  *)
(* batch size, the loop terminates after exactly one fetch and the output  *)
(* is exactly that response's titles, one per line, in the API's order.    *)
(***************************************************************************)
C3_ShortFirstPage ==
    (Len(requests) = 1 /\ LastOK /\ Len(r.categorymembers) < batch_size)
        => /\ ~keep_going
           /\ ~ENABLED Fetch
           /\ pc \in {"loop", "done", "crashed"}
           /\ pc = "crashed" => stdout[Len(stdout)].fmt = "Found {} categories."
           /\ Titles(all_categories) = Titles(r.categorymembers)
           /\ pc = "done" => file = LinesOf(Titles(r.categorymembers))

C3_Witness ==
    /\ pc = "done"
    /\ Len(requests) = 1
    /\ LastOK
    /\ Len(r.categorymembers) = 499
    /\ r.continue.present
    /\ file = LinesOf(Titles(r.categorymembers))

(***************************************************************************)
(* C4.  In a run of 200 responses in which every full page carries a       *)
(* continuation block with continue = "-||" and a non-empty cmcontinue,    *)
(* the enumerator issues one fetch per page until the first short page,    *)
(* then stops, and the output is the concatenation of the fetched pages'   *)
(* titles in fetch order: one request per response; after a full page      *)
(* with such a block the loop goes on, after a short page it has stopped;  *)
(* the accumulated titles are the titles received, in order, and so are    *)
(* the lines of the file written.                                          *)
(***************************************************************************)
C4_OneFetchPerPage ==
    (AllOK /\ pc # "crashed") =>
        /\ Len(requests) = Len(statuses)
        /\ (pc = "loop" /\ LastOK /\ Len(r.categorymembers) >= batch_size
                /\ LastContinues)
            => /\ keep_going
               /\ Len(requests) < MaxFetches => ENABLED Fetch
               /\ ~ENABLED Finalize
        /\ (pc = "loop" /\ LastOK /\ Len(r.categorymembers) < batch_size)
            => /\ ~keep_going
               /\ ~ENABLED Fetch
        /\ Titles(all_categories) = fetched
        /\ pc = "done" => file = LinesOf(fetched)

C4_Witness ==
    /\ pc = "done"
    /\ AllOK
    /\ Len(requests) = 3
    /\ Len(all_categories) = 2 * batch_size + 499
    /\ requests[2].params # requests[1].params
    /\ file = LinesOf(fetched)

(***************************************************************************)
(* C5.  After a 200 response whose continuation block has a continue       *)
(* value other than the literal "-||" (a missing value included), the      *)
(* loop terminates, whatever the page's record count and its cmcontinue    *)
(* token, and that page's records are in the output.                       *)
(***************************************************************************)
C5_SentinelMismatchStops ==
    (LastOK /\ r.continue.present /\ r.continue.continue # "-||") =>
        /\ ~keep_going
        /\ ~ENABLED Fetch
        /\ IsSuffix(r.categorymembers, all_categories)
        /\ pc = "done" => IsSuffix(LinesOf(Titles(r.categorymembers)), file)

C5_Witness ==
    /\ pc = "done"
    /\ LastOK
    /\ r.continue.present
    /\ r.continue.continue = "||"
    /\ r.continue.cmcontinue \notin {None, ""}
    /\ Len(r.categorymembers) = batch_size
    /\ Len(requests) = 2
    /\ IsSuffix(LinesOf(Titles(r.categorymembers)), file)

(***************************************************************************)
(* C6.  A non-200 response at any iteration does not abort the loop, and   *)
(* leaves the request parameters and the accumulated records unchanged;    *)
(* the next request issued is identical to the one that failed.            *)
(***************************************************************************)
C6_ErrorStep ==
    (Len(statuses') > Len(statuses) /\ r'.status_code # 200) =>
        /\ pc' = "loop"
        /\ keep_going'
        /\ args' = args
        /\ all_categories' = all_categories
        /\ requests'[Len(requests')] = Request(args')

C6_RetryIdentical ==
    \A i \in 1..Len(statuses) :
        (statuses[i] # 200 /\ i < Len(requests)) => requests[i + 1] = requests[i]

C6_ErrorRetriesSameRequest == [][C6_ErrorStep]_vars /\ []C6_RetryIdentical

C6_Witness ==
    /\ Len(statuses) = 3
    /\ statuses[1] = 200
    /\ statuses[2] # 200
    /\ "cmcontinue" \in DOMAIN requests[2].params
    /\ requests[3] = requests[2]
    /\ Len(all_categories) > batch_size

(***************************************************************************)
(* C7.  Once every response is non-200, the loop never exits: the same     *)
(* request is repeated, the finalization is never reached and the file is  *)
(* never written.                                                          *)
(***************************************************************************)
C7_DownStep ==
    apiDown =>
        /\ pc' = "loop"
        /\ keep_going'
        /\ file' = file
        /\ args' = args
        /\ Len(requests') > Len(requests) =>
                requests'[Len(requests')] = Request(args)

C7_DownState ==
    apiDown =>
        /\ pc = "loop"
        /\ keep_going
        /\ file = PriorContent
        /\ ~ENABLED Finalize
        /\ Len(requests) < MaxFetches => ENABLED FetchError

C7_PersistentErrorNeverExits == [][C7_DownStep]_vars /\ []C7_DownState

C7_Witness ==
    /\ apiDown
    /\ Len(statuses) = 3
    /\ statuses[1] = 200
    /\ statuses[2] # 200
    /\ statuses[3] # 200
    /\ requests[3] = requests[2]
    /\ all_categories # <<>>

(***************************************************************************)
(* C8.  The result is persisted once per completed run and only after the  *)
(* loop has exited: while the loop runs, and after a crash, the file has   *)
(* its prior content; the only step that changes the file is the           *)
(* finalization, which ends the run.                                       *)
(***************************************************************************)
C8_FileStep ==
    file' # file => (pc = "loop" /\ ~keep_going /\ pc' = "done")

C8_FileState == pc # "done" => file = PriorContent

C8_PersistedOnceAfterLoop == [][C8_FileStep]_vars /\ []C8_FileState

C8_Witness ==
    /\ pc = "crashed"
    /\ LastOK = FALSE
    /\ r.status_code = 200
    /\ Len(all_categories) = 2 * batch_size
    /\ file = PriorContent

(***************************************************************************)
(* C9.  At finalization the reported count equals the number of            *)
(* accumulated records, the number of lines written and the number of      *)
(* records the 200 responses carried, and the file's prior content is      *)
(* replaced.  A category of 650 members with batch size 500 takes two      *)
(* fetches (500 records, then 150), 650 lines and a reported count of 650. *)
(***************************************************************************)
Reported == stdout[Len(stdout)]

C9_CountsAgree ==
    /\ pc = "done" =>
        /\ Reported.fmt = "Found {} categories."
        /\ Reported.n = Len(all_categories)
        /\ Reported.n = LineCount(file)
        /\ Reported.n = Len(fetched)
        /\ file = LinesOf(fetched)
    /\ (PagedAllOK /\ members = 650 /\ batch_size = 500) =>
        /\ Len(requests) <= 2
        /\ Len(requests) = 1 => (Len(all_categories) = 500 /\ keep_going)
        /\ Len(requests) = 2 =>
              (Len(r.categorymembers) = 150 /\ Len(all_categories) = 650)
        /\ pc = "done" =>
              (Len(requests) = 2 /\ LineCount(file) = 650 /\ Reported.n = 650)

C9_Witness ==
    /\ pc = "done"
    /\ PagedAllOK
    /\ members = 650
    /\ Len(requests) = 2
    /\ Reported = Out("Found {} categories.", 650)
    /\ LineCount(file) = 650

(***************************************************************************)
(* C10.  A 200 response that lacks query.categorymembers ends the process  *)
(* in a crashed state at that iteration: no further fetch, no count        *)
(* reported, the file never written, whatever was accumulated before.      *)
(***************************************************************************)
CountReported ==
    \E i \in 1..Len(stdout) : stdout[i].fmt = "Found {} categories."

C10_MalformedCrashes ==
    (r.status_code = 200 /\ r.body \in {"noquery", "nocms"}) =>
        /\ pc = "crashed"
        /\ ~ENABLED Next
        /\ ~CountReported
        /\ file = PriorContent

C10_Witness ==
    /\ pc = "crashed"
    /\ r.status_code = 200
    /\ r.body = "nocms"
    /\ Len(statuses) = 3
    /\ Len(all_categories) = 2 * batch_size
    /\ ~CountReported

(***************************************************************************)
(* C11.  After a 200 response with fewer records than the batch size no    *)
(* further fetch is made, even when the response carries a continuation    *)
(* block with continue = "-||" and a non-empty cmcontinue; the short       *)
(* page's records are appended before the loop exits.                      *)
(***************************************************************************)
C11_ShortPageStopsDespiteContinue ==
    (LastOK /\ Len(r.categorymembers) < batch_size /\ LastContinues) =>
        /\ ~keep_going
        /\ ~ENABLED Fetch
        /\ pc = "loop" => ENABLED Finalize
        /\ IsSuffix(r.categorymembers, all_categories)

C11_Witness ==
    /\ pc = "done"
    /\ LastOK
    /\ LastContinues
    /\ Len(r.categorymembers) = 499
    /\ Len(requests) = 2
    /\ Len(all_categories) = batch_size + 499

(***************************************************************************)
(* C12.  After a 200 response whose continuation block has continue =      *)
(* "-||" but no cmcontinue token, or an empty one, the loop terminates,    *)
(* even when the page is full.                                             *)
(***************************************************************************)
C12_MissingTokenStops ==
    (LastOK /\ r.continue.present /\ r.continue.continue = "-||"
        /\ r.continue.cmcontinue \in {None, ""}) =>
        /\ ~keep_going
        /\ ~ENABLED Fetch
        /\ pc = "loop" => ENABLED Finalize

C12_Witness ==
    /\ pc = "done"
    /\ LastOK
    /\ r.continue.present
    /\ r.continue.continue = "-||"
    /\ r.continue.cmcontinue = ""
    /\ Len(r.categorymembers) = batch_size
    /\ Len(requests) = 1

(***************************************************************************)
(* C13.  Continuation carry-forward: the first request carries no          *)
(* continue and no cmcontinue; every later request carries exactly the     *)
(* continue value and the token of the most recent 200 response whose      *)
(* block matched the sentinel with a non-empty token, never an older one.  *)
(* Every request sends the current args; a 200 response with a matching    *)
(* block puts its two values into args, and no other step changes them.    *)
(***************************************************************************)
Continuation(params) ==
    [k \in DOMAIN params \cap {"continue", "cmcontinue"} |-> params[k]]

Received == Len(statuses') > Len(statuses)

C13_CarryStep ==
    /\ Len(requests') > Len(requests) =>
          requests'[Len(requests')].params = args
    /\ (Received /\ r'.status_code = 200 /\ r'.body = "json"
            /\ r'.continue.present /\ r'.continue.continue = "-||"
            /\ r'.continue.cmcontinue \notin {None, ""})
        => Continuation(args') =
               [k \in {"continue", "cmcontinue"} |->
                   IF k = "continue" THEN r'.continue.continue
                   ELSE r'.continue.cmcontinue]
    /\ ~(Received /\ r'.status_code = 200 /\ r'.body = "json"
            /\ r'.continue.present /\ r'.continue.continue = "-||"
            /\ r'.continue.cmcontinue \notin {None, ""})
        => Continuation(args') = Continuation(args)

C13_FirstRequest ==
    /\ requests = <<>> => DOMAIN Continuation(args) = {}
    /\ requests # <<>> => DOMAIN Continuation(requests[1].params) = {}

C13_ContinuationCarried == [][C13_CarryStep]_vars /\ []C13_FirstRequest

C13_Witness ==
    /\ apiKind = "paged"
    /\ Len(requests) = 3
    /\ AllOK
    /\ DOMAIN Continuation(requests[1].params) = {}
    /\ DOMAIN Continuation(requests[2].params) = {"continue", "cmcontinue"}
    /\ DOMAIN Continuation(requests[3].params) = {"continue", "cmcontinue"}
    /\ requests[2].params["cmcontinue"] = Tokens[1]
    /\ requests[3].params["cmcontinue"] = Tokens[2]
    /\ requests[3].params["continue"] = "-||"

(***************************************************************************)
(* C14.  The accumulated sequence grows monotonically: across every step   *)
(* the earlier sequence is a prefix of the later one; a 200 response       *)
(* appends exactly its records in the order received, and no other step    *)
(* changes the sequence.                                                   *)
(***************************************************************************)
C14_GrowStep ==
    /\ Len(all_categories) <= Len(all_categories')
    /\ SubSeq(all_categories', 1, Len(all_categories)) = all_categories
    /\ (Received /\ r'.status_code = 200 /\ r'.body = "json")
        => /\ Len(all_categories') =
                  Len(all_categories) + Len(r'.categorymembers)
           /\ SubSeq(all_categories', Len(all_categories) + 1,
                     Len(all_categories')) = r'.categorymembers
    /\ ~(Received /\ r'.status_code = 200 /\ r'.body = "json")
        => all_categories' = all_categories

C14_MonotonicGrowth == [][C14_GrowStep]_vars

C14_Witness ==
    /\ Len(statuses) = 3
    /\ statuses[2] # 200
    /\ statuses[3] = 200
    /\ Len(all_categories) = 2 * batch_size
    /\ all_categories[1].title # all_categories[batch_size + 1].title

(***************************************************************************)
(* C15.  Every request of a run carries the same category, batch-size      *)
(* limit and base parameters as the first; only continue and cmcontinue    *)
(* ever change between requests.                                           *)
(***************************************************************************)
C15_RequestFrame ==
    \A i \in 1..Len(requests) :
        /\ requests[i].u = requests[1].u
        /\ DOMAIN requests[1].params = DOMAIN base_args \cup {"cmtitle"}
        /\ DOMAIN requests[i].params \subseteq
               DOMAIN requests[1].params \cup {"continue", "cmcontinue"}
        /\ \A k \in DOMAIN requests[1].params :
               /\ k \in DOMAIN requests[i].params
               /\ requests[i].params[k] = requests[1].params[k]
        /\ requests[i].params["cmtitle"] = default_category
        /\ requests[i].params["cmlimit"] = batch_size

C15_Witness ==
    /\ Len(requests) = 3
    /\ "cmcontinue" \in DOMAIN requests[2].params
    /\ requests[3].params # requests[1].params
    /\ requests[3].params["cmtitle"] = default_category

(***************************************************************************)
(* C16.  Retry transparency: against an API whose answer depends only on   *)
(* the request parameters, non-200 responses inserted anywhere in a run    *)
(* change neither the sequence of distinct requests nor the final output:  *)
(* the run is where the same run with the failed fetches removed is, each  *)
(* request is the one that run issues after as many successes, and the     *)
(* file is that run's file, no record duplicated or skipped.               *)
(***************************************************************************)
\* The script after k fetches against the paging API with no failure.
RECURSIVE CleanRun(_)
CleanRun(k) ==
    IF k = 0
    THEN [args |-> [key \in DOMAIN base_args \cup {"cmtitle"} |->
                       IF key = "cmtitle" THEN default_category
                       ELSE base_args[key]],
          all_categories |-> <<>>,
          keep_going |-> TRUE]
    ELSE LET before == CleanRun(k - 1)
             resp == PagedResponse(before.args)
         IN  [args |-> ArgsAfterOK(before.args, resp),
              all_categories |->
                  Extend(before.all_categories, resp.categorymembers),
              keep_going |-> KeepGoingAfterOK(resp)]

\* The 200 responses among the first n.
Successes(n) == Cardinality({j \in 1..n : statuses[j] = 200})

C16_RetryTransparent ==
    apiKind = "paged" =>
        LET clean == CleanRun(Successes(Len(statuses)))
        IN  /\ args = clean.args
            /\ all_categories = clean.all_categories
            /\ keep_going = clean.keep_going
            /\ \A i \in 1..Len(requests) :
                   requests[i] = Request(CleanRun(Successes(i - 1)).args)
            /\ pc = "done" => file = LinesOf(Titles(clean.all_categories))

C16_Witness ==
    /\ apiKind = "paged"
    /\ members = 650
    /\ statuses = <<200, 503, 200>>
    /\ requests[3] = requests[2]
    /\ pc = "done"
    /\ file = LinesOf(MemberTitles)

(***************************************************************************)
(* C17.  Exit only after success: at least one fetch is always issued and  *)
(* the loop can exit only in an iteration that received a 200 response;    *)
(* whenever the file has been written, the last response processed had     *)
(* status 200 and at least one 200 response was received.                  *)
(***************************************************************************)
LoopExited == (pc = "loop" /\ ~keep_going) \/ pc = "done" \/ CountReported

C17_ExitStep == (keep_going /\ ~keep_going') => (Received /\ r'.status_code = 200)

C17_ExitState ==
    /\ requests = <<>> => (pc = "loop" /\ keep_going /\ ~ENABLED Finalize)
    /\ (LoopExited \/ file # PriorContent) =>
        /\ statuses # <<>>
        /\ statuses[Len(statuses)] = 200
        /\ r.status_code = 200

C17_ExitOnlyAfterSuccess == [][C17_ExitStep]_vars /\ []C17_ExitState

C17_Witness ==
    /\ pc = "done"
    /\ Len(statuses) = 3
    /\ statuses[1] # 200
    /\ statuses[2] # 200
    /\ statuses[3] = 200
    /\ file # PriorContent

(***************************************************************************)
(* C18.  Every completed iteration, successful or failed, emits exactly    *)
(* one progress character and then sleeps once before the loop condition   *)
(* is tested again: the progress characters emitted are as many as the     *)
(* completed iterations, and there is exactly one sleep between any two    *)
(* consecutive requests.                                                   *)
(***************************************************************************)
ProgressCount ==
    Cardinality({i \in 1..Len(stdout) : stdout[i].fmt = "."})

\* Iterations that ran to the sleep: every response but a 200 response on
\* which the iteration raised.
CompletedIterations ==
    IF r.status_code = 200 /\ r.body # "json"
    THEN Len(statuses) - 1
    ELSE Len(statuses)

C18_IterationStep ==
    /\ Len(requests') > Len(requests) => sleeps = Len(requests)
    /\ (Received /\ pc' = "loop") =>
        /\ sleeps' = sleeps + 1
        /\ stdout'[Len(stdout')] = Out(".", 0)
    /\ ~Received => sleeps' = sleeps

C18_IterationState ==
    /\ ProgressCount = CompletedIterations
    /\ sleeps = CompletedIterations

C18_ProgressAndSleep == [][C18_IterationStep]_vars /\ []C18_IterationState

C18_Witness ==
    /\ Len(statuses) = 3
    /\ statuses[1] = 200
    /\ statuses[2] # 200
    /\ statuses[3] = 200
    /\ ProgressCount = 3
    /\ sleeps = 3
    /\ Len(stdout) > 3

====
